---- MODULE Spec2Model ----
(***************************************************************************)
(* LinkShortner (server.js): the Link and Tracking collections, the admin  *)
(* and API routes that manage Links, and the redirect handler              *)
(* app.get('/:shortened') with click tracking.  Every await of a handler   *)
(* is one step; what runs synchronously between two awaits belongs to the  *)
(* step of the earlier await's completion.  An admin or API handler that   *)
(* reads the session or the clock before its await takes two steps: the    *)
(* arrival, which runs up to the await, and the completion of the storage  *)
(* call, which stores and responds.                                        *)
(***************************************************************************)
EXTENDS Integers, Sequences, FiniteSets, TLC

\* ---------------------------------------------------------------- bounds
MaxReq == 3        \* redirect requests the server handles in one behaviour
MaxArrivals == 2   \* of them, those that arrive while Links are managed
MaxTime == 1       \* values of the clock read by new Date(): 0..MaxTime
MaxId == 2         \* documents the Link collection creates in one behaviour
MaxOps == 2        \* admin and API requests that wait for the storage at a time

Req == 1..MaxReq
Visitors == 1..MaxArrivals
Op == 1..MaxOps

\* ------------------------------------------------------------ value sets
Undefined == "undefined"     \* a body field or header that is absent
Null == "null"               \* null of JavaScript
\* findOne found no Link / no Tracking document (null)
NoLink == [id |-> 0, shortened |-> "", targetUrl |-> "", visitCount |-> 0, createdAt |-> 0]
NoTrack == [exists |-> FALSE, targetUrl |-> "", visits |-> <<>>]
\* no Tracking document in memory yet
NoMem == [isNew |-> FALSE, targetUrl |-> ""]
\* no visitData built yet
NoAgent == [complete |-> "", browser |-> "", os |-> "", deviceType |-> "",
            deviceModel |-> ""]
NoVisit == [visitNumber |-> 0, timestamp |-> 0, ipAddress |-> "", fields |-> {},
            userAgent |-> NoAgent, isBot |-> FALSE]

\* keys a caller may send as `shortened`
PlainKeys == {"promo00"}
ReservedInputs == {"admin", "Admin", "api", "API", "track", "Track"}
InputKeys == PlainKeys \cup ReservedInputs \cup {"", Undefined}
\* outcomes of generateRandomString(): 7 alphanumeric characters, so a
\* generated key may equal a 7-character key chosen by a caller
RandKeys == {"promo00", "Zx81kQ2"}
\* every key a Link can be filed under
Keys == PlainKeys \cup ReservedInputs \cup RandKeys

Urls == {"https://example.com/sale", "https://example.org/new"}
ClientIps == {"8.8.8.8"}
\* the address of the r-th of several clients
IpOf(r) ==
    CASE r = 1 -> "8.8.8.8"
      [] r = 2 -> "1.1.1.1"
      [] OTHER -> "192.168.0.7"

\* values of the User-Agent header
ChromeUA ==
    "Mozilla/5.0 (Windows NT 10.0; Win64; x64) AppleWebKit/537.36 (KHTML, like Gecko) Chrome/120.0.0.0 Safari/537.36"
PhoneUA ==
    "Mozilla/5.0 (iPhone; CPU iPhone OS 16_0 like Mac OS X) AppleWebKit/605.1.15 (KHTML, like Gecko) Version/16.0 Mobile/15E148 Safari/604.1"
BotUA == "Googlebot/2.1 (+http://www.google.com/bot.html)"
GarbageUA == "not a user agent"
\* the header is absent, empty or holds nothing a parser recognises
BlankAgents == {Undefined, "", GarbageUA}
UserAgents == BlankAgents \cup {ChromeUA, PhoneUA, BotUA}

\* String.prototype.toLowerCase on the keys above
ToLowerCase(s) ==
    CASE s = "Admin" -> "admin"
      [] s = "API" -> "api"
      [] s = "Track" -> "track"
      [] s = "Zx81kQ2" -> "zx81kq2"
      [] OTHER -> s

\* !x of JavaScript for a string or undefined
Falsy(x) == x = Undefined \/ x = ""

VARIABLES
    links,          \* Link collection: key -> NoLink or the document
    nextId,         \* next _id the Link collection hands out
    tracking,       \* Tracking collection: key -> NoTrack or the document
    now,            \* the clock
    adminPassword,  \* process.env.ADMIN_PASSWORD
    sessionAdmin,   \* req.session.admin of the one browser session
    resp,           \* response of the last admin or API request
    ops,            \* admin and API requests suspended at their await
    pc,             \* redirect request -> the await it is suspended at
    rkey,           \* redirect request -> req.params.shortened
    rip,            \* redirect request -> requestIp.getClientIp(req)
    rua,            \* redirect request -> req.headers['user-agent']
    rlink,          \* redirect request -> its `link` document (in memory)
    rvisit,         \* redirect request -> its `visitData`
    rtrk,           \* redirect request -> its `tracking` document (in memory)
    seen,           \* redirect request -> the Link its lookup read from the store
    outcome,        \* redirect request -> the response it sent
    log             \* redirect request -> the storage calls and steps it made

vars == <<links, nextId, tracking, now, adminPassword, sessionAdmin, resp, ops,
          pc, rkey, rip, rua, rlink, rvisit, rtrk, seen, outcome, log>>
storeVars == <<links, nextId, tracking>>
reqVars == <<pc, rkey, rip, rua, rlink, rvisit, rtrk, seen, outcome, log>>
authVars == <<adminPassword, sessionAdmin>>

NoResp == [route |-> "none", status |-> 0, location |-> Undefined, count |-> 0,
           data |-> <<>>]
NoOutcome == [status |-> 0, target |-> Undefined]
\* no admin or API request is suspended in the slot
NoOp == [route |-> "none", body |-> Undefined, shortened |-> Undefined,
         targetUrl |-> Undefined, createdAt |-> 0]

\* no session is logged in, no response was sent, no request has arrived
InitIdle ==
    /\ now = 0
    /\ sessionAdmin = FALSE
    /\ resp = NoResp
    /\ ops = [o \in Op |-> NoOp]
    /\ pc = [r \in Req |-> "idle"]
    /\ rkey = [r \in Req |-> Undefined]
    /\ rip = [r \in Req |-> Undefined]
    /\ rua = [r \in Req |-> Undefined]
    /\ rlink = [r \in Req |-> NoLink]
    /\ rvisit = [r \in Req |-> NoVisit]
    /\ rtrk = [r \in Req |-> NoMem]
    /\ seen = [r \in Req |-> NoLink]
    /\ outcome = [r \in Req |-> NoOutcome]
    /\ log = [r \in Req |-> <<>>]

\* the server starts on an empty database
Init ==
    /\ links = [k \in Keys |-> NoLink]
    /\ nextId = 1
    /\ tracking = [k \in Keys |-> NoTrack]
    /\ adminPassword \in {"hunter2", Undefined}
    /\ InitIdle

\* new Date() may return a later value on a later call
Tick ==
    /\ now < MaxTime
    /\ now' = now + 1
    /\ UNCHANGED <<storeVars, authVars, ops, resp, reqVars>>

\* ------------------------------------------------------------ Link store
\* the document an upsert inserts: schema defaults give visitCount 0
NewLink(k, url, t, id) ==
    [id |-> id, shortened |-> k, targetUrl |-> url, visitCount |-> 0, createdAt |-> t]

\* a findOneAndUpdate that replaces the document instead of setting two fields
ReplaceDocument(doc, url, t) ==
    [doc EXCEPT !.targetUrl = url, !.createdAt = t, !.visitCount = 0]

\* Link.findOneAndUpdate({shortened}, {targetUrl, createdAt}, {new: true}):
\* the $set of the two fields on the matching document
SetTargetAndDate(doc, url, t) ==
    [doc EXCEPT !.targetUrl = url, !.createdAt = t]

\* Link.findOneAndUpdate(..., {upsert: true, new: true})
Upsert(ls, k, url, t, id) ==
    IF ls[k] = NoLink
    THEN [ls EXCEPT ![k] = NewLink(k, url, t, id)]
    ELSE [ls EXCEPT ![k] = SetTargetAndDate(ls[k], url, t)]

\* a deleteMany({}) in the place of the deleteOne
DeleteMany(ls, k) == [x \in Keys |-> NoLink]

\* Link.deleteOne({shortened}) / Link.findOneAndDelete({shortened})
DeleteOne(ls, k) == [x \in Keys |-> IF x = k THEN NoLink ELSE ls[x]]

\* if (!shortened) shortened = generateRandomString(), g being the string
\* that the generator returns
KeyOf(s, g) == IF Falsy(s) THEN g ELSE s

\* the reserved-path checks of the two create routes
ReservedAdminCreate(shortened) ==
    shortened # Undefined /\ ToLowerCase(shortened) \in {"admin", "track"}

ReservedApiCreate(shortened) ==
    shortened # Undefined /\ ToLowerCase(shortened) \in {"admin", "api", "track"}

\* authenticateAPI: the header must be present and equal to API_KEY
API_KEY == "your-secret-api-key-here"
AuthHeaders == {Undefined, API_KEY, "wrong-key"}

\* a check that asks for a header and does not compare it
AuthenticateAnyKey(authHeader) == authHeader # Undefined

AuthenticateAPI(authHeader) == authHeader # Undefined /\ authHeader = API_KEY

\* the response of an admin or API route: the status and, for res.redirect,
\* the location
Respond(route, status, location) ==
    [route |-> route, status |-> status, location |-> location, count |-> 0,
     data |-> <<>>]

\* res.json({success: true, count, data}) of the read routes
RespondData(route, count, data) ==
    [route |-> route, status |-> 200, location |-> Undefined, count |-> count,
     data |-> data]

\* encodeURIComponent(req.originalUrl) of the admin routes
EncodeURIComponent(url) ==
    CASE url = "/admin/create" -> "%2Fadmin%2Fcreate"
      [] url = "/admin/delete" -> "%2Fadmin%2Fdelete"
      [] OTHER -> url

\* the location authenticateAdmin redirects to
LoginPage(originalUrl) ==
    CASE EncodeURIComponent(originalUrl) = "%2Fadmin%2Fcreate" ->
           "/admin/login?redirect=%2Fadmin%2Fcreate"
      [] EncodeURIComponent(originalUrl) = "%2Fadmin%2Fdelete" ->
           "/admin/login?redirect=%2Fadmin%2Fdelete"
      [] OTHER -> "/admin/login"

\* a middleware that lets every session through
AuthenticateNobody(session) == TRUE

\* authenticateAdmin: if (req.session.admin) return next()
AuthenticateAdmin(session) == session

\* ---------------------------------------------------------- admin routes
\* values of the `redirect` field of the login form
LoginRedirects == {Undefined, "", "/admin/track/promo00"}

\* redirect || '/admin'
RedirectTo(redirect) == IF Falsy(redirect) THEN "/admin" ELSE redirect

\* app.post('/admin/login'): no await
AdminLogin(password, redirect) ==
    /\ IF password = adminPassword
       THEN /\ sessionAdmin' = TRUE
            /\ resp' = Respond("admin/login", 302, RedirectTo(redirect))
       ELSE sessionAdmin' = sessionAdmin /\ resp' = Respond("admin/login", 200, Undefined)
    /\ UNCHANGED <<storeVars, now, adminPassword, ops, reqVars>>

\* a handler that reaches its await is suspended in the lowest free slot
FreeSlot(o) == ops[o] = NoOp /\ \A q \in Op : q < o => ops[q] # NoOp

\* what the suspended handler holds: its route, req.body.shortened (or
\* req.params.shortened), the key and the targetUrl of the storage call and
\* the new Date() it evaluated for the call
Suspend(o, route, body, shortened, targetUrl, createdAt) ==
    /\ FreeSlot(o)
    /\ ops' = [ops EXCEPT ![o] = [route |-> route, body |-> body,
                                  shortened |-> shortened, targetUrl |-> targetUrl,
                                  createdAt |-> createdAt]]

\* the continuation of the await runs
Resume(o, route) ==
    /\ ops[o].route = route
    /\ ops' = [ops EXCEPT ![o] = NoOp]

\* app.post('/admin/logout'): req.session.destroy(callback) removes the
\* session at once and defers the callback
AdminLogout(o) ==
    /\ Suspend(o, "admin/logout", Undefined, Undefined, Undefined, 0)
    /\ sessionAdmin' = FALSE
    /\ UNCHANGED <<storeVars, now, adminPassword, resp, reqVars>>

\* the callback of req.session.destroy: res.redirect('/admin/login')
AdminLogoutDone(o) ==
    /\ Resume(o, "admin/logout")
    /\ resp' = Respond("admin/logout", 302, "/admin/login")
    /\ UNCHANGED <<storeVars, now, authVars, reqVars>>

\* app.post('/admin/create') behind authenticateAdmin, up to its await
AdminCreate(o, shortened, targetUrl, gen) ==
    /\ UNCHANGED <<storeVars, now, authVars, reqVars>>
    /\ IF ~AuthenticateAdmin(sessionAdmin)
       THEN resp' = Respond("admin/create", 302, LoginPage("/admin/create"))
            /\ UNCHANGED ops
       ELSE IF ReservedAdminCreate(shortened)
       THEN resp' = Respond("admin/create", 400, Undefined) /\ UNCHANGED ops
       ELSE /\ Suspend(o, "admin/create", shortened, KeyOf(shortened, gen), targetUrl, now)
            /\ UNCHANGED resp

\* app.post('/admin/create'): Link.findOneAndUpdate settles
AdminCreateDone(o, io) ==
    /\ Resume(o, "admin/create")
    /\ UNCHANGED <<tracking, now, authVars, reqVars>>
    /\ IF io = "err"
       THEN /\ resp' = Respond("admin/create", 500, Undefined)
            /\ UNCHANGED <<links, nextId>>
       ELSE /\ links[ops[o].shortened] = NoLink => nextId <= MaxId
            /\ links' = Upsert(links, ops[o].shortened, ops[o].targetUrl,
                               ops[o].createdAt, nextId)
            /\ nextId' = IF links[ops[o].shortened] = NoLink THEN nextId + 1 ELSE nextId
            /\ resp' = Respond("admin/create", 302, "/admin")

\* app.post('/admin/delete') behind authenticateAdmin, up to its await
AdminDelete(o, shortened) ==
    /\ UNCHANGED <<storeVars, now, authVars, reqVars>>
    /\ IF ~AuthenticateAdmin(sessionAdmin)
       THEN resp' = Respond("admin/delete", 302, LoginPage("/admin/delete"))
            /\ UNCHANGED ops
       ELSE /\ Suspend(o, "admin/delete", shortened, shortened, Undefined, 0)
            /\ UNCHANGED resp

\* app.post('/admin/delete'): Link.deleteOne settles
AdminDeleteDone(o, io) ==
    /\ Resume(o, "admin/delete")
    /\ UNCHANGED <<tracking, nextId, now, authVars, reqVars>>
    /\ IF io = "err"
       THEN resp' = Respond("admin/delete", 500, Undefined) /\ UNCHANGED links
       ELSE /\ links' = DeleteOne(links, ops[o].shortened)
            /\ resp' = Respond("admin/delete", 302, "/admin")

\* ------------------------------------------------------------ API routes
\* app.post('/api/links') behind authenticateAPI, up to its await
ApiCreate(o, authHeader, shortened, targetUrl, gen) ==
    /\ UNCHANGED <<storeVars, now, authVars, reqVars>>
    /\ IF ~AuthenticateAPI(authHeader)
       THEN resp' = Respond("api/create", 401, Undefined) /\ UNCHANGED ops
       ELSE IF Falsy(targetUrl) \/ ReservedApiCreate(shortened)
       THEN resp' = Respond("api/create", 400, Undefined) /\ UNCHANGED ops
       ELSE /\ Suspend(o, "api/create", shortened, KeyOf(shortened, gen), targetUrl, now)
            /\ UNCHANGED resp

\* app.post('/api/links'): Link.findOneAndUpdate settles
ApiCreateDone(o, io) ==
    /\ Resume(o, "api/create")
    /\ UNCHANGED <<tracking, now, authVars, reqVars>>
    /\ IF io = "err"
       THEN /\ resp' = Respond("api/create", 500, Undefined)
            /\ UNCHANGED <<links, nextId>>
       ELSE /\ links[ops[o].shortened] = NoLink => nextId <= MaxId
            /\ links' = Upsert(links, ops[o].shortened, ops[o].targetUrl,
                               ops[o].createdAt, nextId)
            /\ nextId' = IF links[ops[o].shortened] = NoLink THEN nextId + 1 ELSE nextId
            /\ resp' = Respond("api/create", 201, Undefined)

\* app.put('/api/links/:shortened') behind authenticateAPI, up to its await
ApiUpdate(o, authHeader, shortened, targetUrl) ==
    /\ UNCHANGED <<storeVars, now, authVars, reqVars>>
    /\ IF ~AuthenticateAPI(authHeader)
       THEN resp' = Respond("api/update", 401, Undefined) /\ UNCHANGED ops
       ELSE IF Falsy(targetUrl)
       THEN resp' = Respond("api/update", 400, Undefined) /\ UNCHANGED ops
       ELSE /\ Suspend(o, "api/update", shortened, shortened, targetUrl, now)
            /\ UNCHANGED resp

\* app.put('/api/links/:shortened'): Link.findOneAndUpdate settles
ApiUpdateDone(o, io) ==
    /\ Resume(o, "api/update")
    /\ UNCHANGED <<tracking, nextId, now, authVars, reqVars>>
    /\ IF io = "err"
       THEN resp' = Respond("api/update", 500, Undefined) /\ UNCHANGED links
       ELSE IF links[ops[o].shortened] = NoLink
       THEN resp' = Respond("api/update", 404, Undefined) /\ UNCHANGED links
       ELSE /\ links' = [links EXCEPT ![ops[o].shortened] =
                            SetTargetAndDate(@, ops[o].targetUrl, ops[o].createdAt)]
            /\ resp' = Respond("api/update", 200, Undefined)

\* app.delete('/api/links/:shortened') behind authenticateAPI
ApiDelete(authHeader, shortened, io) ==
    /\ UNCHANGED <<tracking, nextId, now, authVars, ops, reqVars>>
    /\ IF ~AuthenticateAPI(authHeader)
       THEN resp' = Respond("api/delete", 401, Undefined) /\ UNCHANGED links
       ELSE IF io = "err"
       THEN resp' = Respond("api/delete", 500, Undefined) /\ UNCHANGED links
       ELSE IF links[shortened] = NoLink
       THEN resp' = Respond("api/delete", 404, Undefined) /\ UNCHANGED links
       ELSE /\ links' = DeleteOne(links, shortened)
            /\ resp' = Respond("api/delete", 200, Undefined)

\* the documents of the Link collection
Stored(ls) == {ls[k] : k \in {x \in Keys : ls[x] # NoLink}}

\* a find() that returns the documents in the order the store keeps them
AnyOrder(seq) == TRUE

\* .sort({visitCount: -1})
SortedByVisits(seq) ==
    \A i \in 1..(Len(seq) - 1) : seq[i].visitCount >= seq[i + 1].visitCount

\* the results Link.find({}).sort({visitCount: -1}) can give: every
\* document once, by descending visitCount, equal counts in any order
FindSorted(ls) ==
    {seq \in [1..Cardinality(Stored(ls)) -> Stored(ls)] :
        /\ \A i, j \in DOMAIN seq : i # j => seq[i] # seq[j]
        /\ SortedByVisits(seq)}

\* the fields of a Link that the read routes report
LinkData(doc) ==
    [shortened |-> doc.shortened, targetUrl |-> doc.targetUrl,
     visitCount |-> doc.visitCount, createdAt |-> doc.createdAt]

\* app.get('/api/links') behind authenticateAPI
ApiList(authHeader, io) ==
    /\ UNCHANGED <<storeVars, now, authVars, ops, reqVars>>
    /\ IF ~AuthenticateAPI(authHeader)
       THEN resp' = Respond("api/list", 401, Undefined)
       ELSE IF io = "err"
       THEN resp' = Respond("api/list", 500, Undefined)
       ELSE \E found \in FindSorted(links) :
               resp' = RespondData("api/list", Len(found),
                                   [i \in DOMAIN found |-> LinkData(found[i])])

\* app.get('/api/links/:shortened') behind authenticateAPI
ApiRead(authHeader, shortened, io) ==
    /\ UNCHANGED <<storeVars, now, authVars, ops, reqVars>>
    /\ IF ~AuthenticateAPI(authHeader)
       THEN resp' = Respond("api/read", 401, Undefined)
       ELSE IF io = "err"
       THEN resp' = Respond("api/read", 500, Undefined)
       ELSE IF links[shortened] = NoLink
       THEN resp' = Respond("api/read", 404, Undefined)
       ELSE resp' = RespondData("api/read", 0, <<LinkData(links[shortened])>>)

\* ------------------------------------------------- redirect: /:shortened
\* geoip.lookup(clientIp): null for an absent or unlisted address
GeoLookup(ip) == ip \in {"8.8.8.8", "1.1.1.1"}

MinimalFields ==
    {"visitNumber", "timestamp", "ipAddress", "isBot", "referrer", "userAgent.complete"}

FullFields ==
    MinimalFields \cup
    {"userAgent.browser", "userAgent.os", "userAgent.device", "userAgent.engine",
     "userAgent.cpu", "acceptLanguage", "acceptEncoding"}

\* clientIp || 'Unknown'
IpOrUnknown(ip) == IF Falsy(ip) THEN "Unknown" ELSE ip

\* link.visitCount += 1 on the document in memory
IncrementVisit(doc) == [doc EXCEPT !.visitCount = @ + 1]

\* link.save(): updateOne({_id}, {$set: {visitCount}}); it matches only the
\* document that was read, and throws DocumentNotFoundError otherwise
LinkSaveMatches(ls, doc) == ls[doc.shortened].id = doc.id

\* a save that writes the whole document in memory over the stored one
LinkSaveWhole(ls, doc) == [ls EXCEPT ![doc.shortened] = doc]

\* an increment that the store applies to the count it holds ($inc)
LinkSaveInc(ls, doc) == [ls EXCEPT ![doc.shortened].visitCount = @ + 1]

LinkSave(ls, doc) == [ls EXCEPT ![doc.shortened].visitCount = doc.visitCount]

\* x || d
OrElse(x, d) == IF Falsy(x) THEN d ELSE x

\* new UAParser(userAgent).getResult(): the names it recognises, undefined
\* for what it does not
ParseUA(userAgent) ==
    CASE userAgent = ChromeUA ->
           [browser |-> "Chrome", os |-> "Windows", deviceType |-> Undefined,
            deviceModel |-> Undefined]
      [] userAgent = PhoneUA ->
           [browser |-> "Mobile Safari", os |-> "iOS", deviceType |-> "mobile",
            deviceModel |-> "iPhone"]
      [] OTHER ->
           [browser |-> Undefined, os |-> Undefined, deviceType |-> Undefined,
            deviceModel |-> Undefined]

\* isbot(userAgent)
IsBot(userAgent) == userAgent = BotUA

\* visitData.userAgent, of the header as the request sent it
AgentData(ua) ==
    LET userAgent == OrElse(ua, "Unknown")
        parsedUA == ParseUA(userAgent)
    IN  [complete |-> userAgent,
         browser |-> OrElse(parsedUA.browser, Null),
         os |-> OrElse(parsedUA.os, Null),
         deviceType |-> OrElse(parsedUA.deviceType, "desktop"),
         deviceModel |-> OrElse(parsedUA.deviceModel, Null)]

\* userAgent: {complete: userAgent} of the fallback
MinimalAgent(ua) ==
    [complete |-> OrElse(ua, "Unknown"), browser |-> Undefined, os |-> Undefined,
     deviceType |-> Undefined, deviceModel |-> Undefined]

\* const visitData = {...} and the geographic block
VisitData(doc, t, ip, ua) ==
    [visitNumber |-> doc.visitCount, timestamp |-> t, ipAddress |-> IpOrUnknown(ip),
     fields |-> IF GeoLookup(ip) THEN FullFields \cup {"geographic"} ELSE FullFields,
     userAgent |-> AgentData(ua), isBot |-> IsBot(OrElse(ua, "Unknown"))]

\* a fallback that pushes visitData again
MinimalVisitAllFields(doc, t, ip, ua) ==
    [visitNumber |-> doc.visitCount, timestamp |-> t, ipAddress |-> IpOrUnknown(ip),
     fields |-> FullFields,
     userAgent |-> AgentData(ua), isBot |-> IsBot(OrElse(ua, "Unknown"))]

\* the object pushed by the fallback
MinimalVisit(doc, t, ip, ua) ==
    [visitNumber |-> doc.visitCount, timestamp |-> t, ipAddress |-> IpOrUnknown(ip),
     fields |-> MinimalFields,
     userAgent |-> MinimalAgent(ua), isBot |-> IsBot(OrElse(ua, "Unknown"))]

\* let tracking = await Tracking.findOne(...); if (!tracking) tracking = new
\* Tracking(...): what the request holds of the document (its visits are not
\* needed again: save() sends only the pushed element)
MemTracking(found, doc) ==
    IF found = NoTrack
    THEN [isNew |-> TRUE, targetUrl |-> doc.targetUrl]
    ELSE [isNew |-> FALSE, targetUrl |-> found.targetUrl]

\* tracking.save() of a document made by new Tracking: insertOne, refused by
\* the unique index on `shortened` when a document with the key exists
TrackingInsert(ts, k, mem, visit) ==
    [ts EXCEPT ![k] = [exists |-> TRUE, targetUrl |-> mem.targetUrl,
                       visits |-> <<visit>>]]

\* a save whose $push is applied twice
TrackingPushTwice(ts, k, mem, visit, url) ==
    [ts EXCEPT ![k] = [exists |-> TRUE, targetUrl |-> url,
                       visits |-> Append(Append(@.visits, visit), visit)]]

\* a save that writes the array of the document in memory over the stored one
TrackingOverwrite(ts, k, mem, visit, url) ==
    [ts EXCEPT ![k] = [exists |-> TRUE, targetUrl |-> url, visits |-> <<visit>>]]

\* tracking.save() of a document that was read: $push of the new visit, and
\* $set of targetUrl when the assignment changed the value that was read
TrackingPush(ts, k, mem, visit, url) ==
    [ts EXCEPT ![k] = [exists |-> TRUE,
                       targetUrl |-> IF url # mem.targetUrl THEN url ELSE @.targetUrl,
                       visits |-> Append(@.visits, visit)]]

\* what tracking.save() does with the storage, given the document in memory
TrackingSave(ts, k, mem, visit, url) ==
    IF mem.isNew
    THEN TrackingInsert(ts, k, [mem EXCEPT !.targetUrl = url], visit)
    ELSE TrackingPush(ts, k, mem, visit, url)

\* a collection without the unique index
NoUniqueIndex(ts, k, mem) == FALSE

\* E11000: insertOne of a second document with the same `shortened`
DuplicateKey(ts, k, mem) == mem.isNew /\ ts[k].exists

\* a redirect to the target the store holds when the response is sent
RedirectTargetReread(r) == links[rkey[r]].targetUrl

\* res.redirect(link.targetUrl)
RedirectTarget(r) == rlink[r].targetUrl

\* a request that stays at the await it is at
StayPut(r, next, what) ==
    /\ pc' = pc
    /\ log' = log
    /\ UNCHANGED outcome

\* the request goes on to its next await
Continue(r, next, what) ==
    /\ pc' = [pc EXCEPT ![r] = next]
    /\ log' = [log EXCEPT ![r] = @ \o what]
    /\ UNCHANGED outcome

\* the request ends: one response is sent and the handler's variables die
Finish(r, status, target, what) ==
    /\ pc' = [pc EXCEPT ![r] = "done"]
    /\ outcome' = [outcome EXCEPT ![r] = [status |-> status, target |-> target]]
    /\ log' = [log EXCEPT ![r] = @ \o what \o <<"respond">>]
    /\ rlink' = [rlink EXCEPT ![r] = NoLink]
    /\ rvisit' = [rvisit EXCEPT ![r] = NoVisit]
    /\ rtrk' = [rtrk EXCEPT ![r] = NoMem]

\* an outer catch that logs the error and lets the handler go on
IgnoreError(r, what) ==
    /\ pc' = [pc EXCEPT ![r] = "findTracking"]
    /\ log' = [log EXCEPT ![r] = @ \o what]
    /\ UNCHANGED <<outcome, rlink, rvisit, rtrk>>

\* res.status(500).send(...) of the outer catch
ServerError(r, what) == Finish(r, 500, Undefined, what)

\* a fallback whose error reaches the outer catch
RethrowMinimalError(r, what) ==
    /\ pc' = [pc EXCEPT ![r] = "done"]
    /\ outcome' = [outcome EXCEPT ![r] = [status |-> 500, target |-> Undefined]]
    /\ log' = [log EXCEPT ![r] = @ \o what \o <<"respond">>]
    /\ rlink' = [rlink EXCEPT ![r] = NoLink]
    /\ rvisit' = [rvisit EXCEPT ![r] = NoVisit]
    /\ rtrk' = [rtrk EXCEPT ![r] = NoMem]

\* what the two catch blocks of the tracking code do with an error of the
\* fallback: nothing, and the handler goes on to res.redirect
SwallowMinimalError(r, what) == Finish(r, 302, RedirectTarget(r), what)

\* a handler without the null check
MissingNever(found) == FALSE

\* if (!link)
Missing(found) == found = NoLink

\* a request arrives
Start(r, key, ip, ua) ==
    /\ pc[r] = "idle"
    /\ pc' = [pc EXCEPT ![r] = "findLink"]
    /\ rkey' = [rkey EXCEPT ![r] = key]
    /\ rip' = [rip EXCEPT ![r] = ip]
    /\ rua' = [rua EXCEPT ![r] = ua]
    /\ UNCHANGED <<storeVars, now, authVars, ops, resp, rlink, rvisit, rtrk, seen, outcome, log>>

\* await Link.findOne({shortened}); then link.visitCount += 1
FindLink(r, io) ==
    /\ pc[r] = "findLink"
    /\ UNCHANGED <<storeVars, now, authVars, ops, resp, rkey, rip, rua>>
    /\ IF io = "err"
       THEN ServerError(r, <<"findLink:err">>) /\ UNCHANGED seen
       ELSE IF Missing(links[rkey[r]])
       THEN Finish(r, 404, Undefined, <<"findLink:miss">>) /\ UNCHANGED seen
       ELSE /\ rlink' = [rlink EXCEPT ![r] = IncrementVisit(links[rkey[r]])]
            /\ seen' = [seen EXCEPT ![r] = links[rkey[r]]]
            /\ Continue(r, "saveLink", <<"findLink:ok">>)
            /\ UNCHANGED <<rvisit, rtrk>>

\* await link.save(); then the enrichment, which runs inside the outer try
SaveLink(r, io, enrich) ==
    /\ pc[r] = "saveLink"
    /\ UNCHANGED <<nextId, tracking, now, authVars, ops, resp, rkey, rip, rua, seen>>
    /\ IF io = "err"
       THEN ServerError(r, <<"saveLink:err">>) /\ UNCHANGED links
       ELSE IF ~LinkSaveMatches(links, rlink[r])
       THEN ServerError(r, <<"saveLink:gone">>) /\ UNCHANGED links
       ELSE /\ links' = LinkSave(links, rlink[r])
            /\ IF enrich = "throw"
               THEN ServerError(r, <<"saveLink:ok", "enrich:throw">>)
               ELSE /\ rvisit' = [rvisit EXCEPT ![r] = VisitData(rlink[r], now, rip[r], rua[r])]
                    /\ Continue(r, "findTracking", <<"saveLink:ok", "enrich:ok">>)
                    /\ UNCHANGED <<rlink, rtrk>>

\* the inner try: await Tracking.findOne({shortened})
FindTracking(r, io) ==
    /\ pc[r] = "findTracking"
    /\ UNCHANGED <<storeVars, now, authVars, ops, resp, rkey, rip, rua, rlink, rvisit, seen>>
    /\ IF io = "err"
       THEN Continue(r, "findMinimal", <<"findTracking:err">>) /\ UNCHANGED rtrk
       ELSE /\ rtrk' = [rtrk EXCEPT ![r] = MemTracking(tracking[rkey[r]], rlink[r])]
            /\ Continue(r, "saveTracking", <<"findTracking:ok">>)

\* tracking.visits.push(visitData); tracking.targetUrl = link.targetUrl;
\* await tracking.save(); res.redirect(link.targetUrl).  save() validates
\* the document before it writes: `valid` is whether visitData passes the
\* casts of trackingSchema (its userAgent.device is declared as
\* {type: String, model: String}, which Mongoose reads as a String path, so
\* the object that visitData puts there can be refused)
SaveTracking(r, valid, io) ==
    /\ pc[r] = "saveTracking"
    /\ UNCHANGED <<links, nextId, now, authVars, ops, resp, rkey, rip, rua, seen>>
    /\ IF ~valid \/ io = "err" \/ DuplicateKey(tracking, rkey[r], rtrk[r])
       THEN /\ Continue(r, "findMinimal",
                        IF ~valid THEN <<"saveTracking:invalid">>
                        ELSE IF io = "err" THEN <<"saveTracking:err">>
                        ELSE <<"saveTracking:duplicate">>)
            /\ UNCHANGED <<tracking, rlink, rvisit, rtrk>>
       ELSE /\ tracking' = TrackingSave(tracking, rkey[r], rtrk[r], rvisit[r],
                                        rlink[r].targetUrl)
            /\ Finish(r, 302, RedirectTarget(r), <<"saveTracking:ok">>)

\* the catch (trackingError): await Tracking.findOne again, then the push of
\* the minimal visit
FindMinimal(r, io) ==
    /\ pc[r] = "findMinimal"
    /\ UNCHANGED <<storeVars, now, authVars, ops, resp, rkey, rip, rua, seen>>
    /\ IF io = "err"
       THEN SwallowMinimalError(r, <<"findMinimal:err">>)
       ELSE /\ rtrk' = [rtrk EXCEPT ![r] = MemTracking(tracking[rkey[r]], rlink[r])]
            /\ rvisit' = [rvisit EXCEPT ![r] = MinimalVisit(rlink[r], now, rip[r], rua[r])]
            /\ Continue(r, "saveMinimal", <<"findMinimal:ok">>)
            /\ UNCHANGED rlink

\* await tracking.save() of the fallback; catch (minimalError) {} ; then
\* res.redirect(link.targetUrl)
SaveMinimal(r, io) ==
    /\ pc[r] = "saveMinimal"
    /\ UNCHANGED <<links, nextId, now, authVars, ops, resp, rkey, rip, rua, seen>>
    /\ IF io = "err" \/ DuplicateKey(tracking, rkey[r], rtrk[r])
       THEN /\ SwallowMinimalError(r, IF io = "err" THEN <<"saveMinimal:err">>
                                      ELSE <<"saveMinimal:duplicate">>)
            /\ UNCHANGED tracking
       ELSE /\ tracking' = TrackingSave(tracking, rkey[r], rtrk[r], rvisit[r],
                                        rtrk[r].targetUrl)
            /\ Finish(r, 302, RedirectTarget(r), <<"saveMinimal:ok">>)

\* ------------------------------------------------------------ behaviours
IoResults == {"ok", "err"}
Passwords == {"hunter2", "letmein", Undefined}
RedirectKeys == {"promo00"}

\* requests are interchangeable: they arrive in the order of their numbers
InOrder(r) == \A q \in Req : q < r => pc[q] # "idle"

\* the steps of the redirect handler
RedirectStep ==
    \/ \E r \in Req, io \in IoResults : FindLink(r, io)
    \/ \E r \in Req, io \in IoResults, e \in {"ok", "throw"} : SaveLink(r, io, e)
    \/ \E r \in Req, io \in IoResults : FindTracking(r, io)
    \/ \E r \in Req, v \in BOOLEAN, io \in IoResults : SaveTracking(r, v, io)
    \/ \E r \in Req, io \in IoResults : FindMinimal(r, io)
    \/ \E r \in Req, io \in IoResults : SaveMinimal(r, io)

\* the next step of request r: the continuation of the await it is at
Handle(r) ==
    \/ \E io \in IoResults : FindLink(r, io)
    \/ \E io \in IoResults, e \in {"ok", "throw"} : SaveLink(r, io, e)
    \/ \E io \in IoResults : FindTracking(r, io)
    \/ \E v \in BOOLEAN, io \in IoResults : SaveTracking(r, v, io)
    \/ \E io \in IoResults : FindMinimal(r, io)
    \/ \E io \in IoResults : SaveMinimal(r, io)

\* no admin or API request is suspended
Quiet == \A o \in Op : ops[o] = NoOp

\* an API client that holds the key updates and deletes the Links that are
\* visited, one request at a time
Manage ==
    \/ \E s \in RedirectKeys, u \in Urls : ApiUpdate(1, API_KEY, s, u)
    \/ ApiUpdateDone(1, "ok")
    \/ \E s \in RedirectKeys : ApiDelete(API_KEY, s, "ok")

\* redirect requests that overlap each other and the management of Links
Next ==
    \/ Manage
    \/ \E r \in Visitors, k \in RedirectKeys, ip \in ClientIps \cup {Undefined} :
          InOrder(r) /\ Start(r, k, ip, ChromeUA)
    \/ RedirectStep

InitConfigured == Init /\ adminPassword = "hunter2"

\* redirect requests that do not overlap each other, on a storage and an
\* enrichment that may fail, with an API client that creates and deletes
\* the Link in between and meanwhile, one request at a time
NoneInFlight == \A q \in Req : pc[q] \in {"idle", "done"}

NextSeq ==
    \/ \E s \in RedirectKeys, u \in Urls : Quiet /\ ApiCreate(1, API_KEY, s, u, s)
    \/ ApiCreateDone(1, "ok")
    \/ \E s \in RedirectKeys : Quiet /\ ApiDelete(API_KEY, s, "ok")
    \/ \E r \in Visitors, k \in RedirectKeys, ip \in ClientIps :
          Quiet /\ InOrder(r) /\ NoneInFlight /\ Start(r, k, ip, ChromeUA)
    \/ Quiet /\ RedirectStep

SpecSeq == InitConfigured /\ [][NextSeq]_vars

\* redirect requests that do not overlap each other, on a storage that
\* works, with the administrator and an API client managing the Links in
\* between and meanwhile, one request at a time; the clock may advance
\* while a create or an update waits for the storage
NextManaged ==
    \/ NoneInFlight /\ Tick
    \/ Quiet /\ AdminLogin("hunter2", Undefined)
    \/ \E s \in RedirectKeys \cup {Undefined} :
          Quiet /\ AdminCreate(1, s, "https://example.org/new", "Zx81kQ2")
    \/ AdminCreateDone(1, "ok")
    \/ \E s \in RedirectKeys : Quiet /\ AdminDelete(1, s)
    \/ AdminDeleteDone(1, "ok")
    \/ \E s \in RedirectKeys :
          Quiet /\ ApiCreate(1, API_KEY, s, "https://example.com/sale", s)
    \/ ApiCreateDone(1, "ok")
    \/ \E s \in RedirectKeys :
          Quiet /\ ApiUpdate(1, API_KEY, s, "https://example.org/new")
    \/ ApiUpdateDone(1, "ok")
    \/ \E s \in RedirectKeys : Quiet /\ ApiDelete(API_KEY, s, "ok")
    \/ \E r \in Visitors, k \in RedirectKeys, ip \in ClientIps :
          Quiet /\ InOrder(r) /\ NoneInFlight /\ Start(r, k, ip, ChromeUA)
    \/ \E r \in Req : Quiet /\ FindLink(r, "ok")
    \/ \E r \in Req : Quiet /\ SaveLink(r, "ok", "ok")
    \/ \E r \in Req : Quiet /\ FindTracking(r, "ok")
    \/ \E r \in Req, v \in BOOLEAN : Quiet /\ SaveTracking(r, v, "ok")
    \/ \E r \in Req : Quiet /\ FindMinimal(r, "ok")
    \/ \E r \in Req : Quiet /\ SaveMinimal(r, "ok")

SpecManaged == InitConfigured /\ [][NextManaged]_vars

\* the server starts on a database that holds no Link, or the Link of the
\* visited key as a create has just stored it
InitStored ==
    /\ links \in {[k \in Keys |-> NoLink],
                  [k \in Keys |-> IF k \in RedirectKeys
                                   THEN NewLink(k, "https://example.com/sale", 0, 1)
                                   ELSE NoLink]}
    /\ nextId = 2
    /\ tracking = [k \in Keys |-> NoTrack]
    /\ adminPassword = "hunter2"
    /\ InitIdle

Spec == InitStored /\ [][Next]_vars

\* every storage call returns or throws, and the event loop runs the
\* continuation of every await that has settled
SpecFair == InitStored /\ [][Next]_vars /\ \A r \in Req : WF_vars(Handle(r))

\* redirect requests with every User-Agent header, one at a time, on a
\* storage that works
NextEnrich ==
    \/ \E r \in Visitors, k \in RedirectKeys, ip \in ClientIps \cup {Undefined},
          ua \in UserAgents :
          InOrder(r) /\ NoneInFlight /\ Start(r, k, ip, ua)
    \/ \E r \in Req : FindLink(r, "ok")
    \/ \E r \in Req : SaveLink(r, "ok", "ok")
    \/ \E r \in Req : FindTracking(r, "ok")
    \/ \E r \in Req, v \in BOOLEAN : SaveTracking(r, v, "ok")
    \/ \E r \in Req : FindMinimal(r, "ok")
    \/ \E r \in Req : SaveMinimal(r, "ok")

SpecEnrich == InitStored /\ [][NextEnrich]_vars

\* the server starts on a database that holds the Link of the visited key
InitPromo ==
    /\ InitStored
    /\ \A k \in RedirectKeys : links[k] # NoLink

\* redirect requests of clients with an address each, which overlap, on a
\* storage that works and on Links that nobody changes
NextClients ==
    \/ \E r \in Req, k \in RedirectKeys : InOrder(r) /\ Start(r, k, IpOf(r), ChromeUA)
    \/ \E r \in Req : FindLink(r, "ok")
    \/ \E r \in Req : SaveLink(r, "ok", "ok")
    \/ \E r \in Req : FindTracking(r, "ok")
    \/ \E r \in Req, v \in BOOLEAN : SaveTracking(r, v, "ok")
    \/ \E r \in Req : FindMinimal(r, "ok")
    \/ \E r \in Req : SaveMinimal(r, "ok")

SpecClients == InitPromo /\ [][NextClients]_vars

\* creates and deletes of the visited key on a database that starts empty,
\* which overlap each other and the redirect requests, on a storage that
\* works
NextFirst ==
    \/ AdminLogin("hunter2", Undefined)
    \/ \E o \in Op, s \in RedirectKeys : AdminCreate(o, s, "https://example.org/new", s)
    \/ \E o \in Op : AdminCreateDone(o, "ok")
    \/ \E o \in Op, s \in RedirectKeys :
          ApiCreate(o, API_KEY, s, "https://example.com/sale", s)
    \/ \E o \in Op : ApiCreateDone(o, "ok")
    \/ \E s \in RedirectKeys : ApiDelete(API_KEY, s, "ok")
    \/ \E r \in Visitors, k \in RedirectKeys, ip \in ClientIps :
          InOrder(r) /\ Start(r, k, ip, ChromeUA)
    \/ \E r \in Req : FindLink(r, "ok")
    \/ \E r \in Req : SaveLink(r, "ok", "ok")
    \/ \E r \in Req : FindTracking(r, "ok")
    \/ \E r \in Req, v \in BOOLEAN : SaveTracking(r, v, "ok")
    \/ \E r \in Req : FindMinimal(r, "ok")
    \/ \E r \in Req : SaveMinimal(r, "ok")

SpecFirst == InitConfigured /\ [][NextFirst]_vars

\* API clients with and without the key that create, update, delete and
\* read Links while they are visited, one request at a time
NextList ==
    \/ \E h \in AuthHeaders, s \in RedirectKeys \cup {Undefined},
          u \in {"https://example.com/sale"} :
          Quiet /\ ApiCreate(1, h, s, u, "Zx81kQ2")
    \/ ApiCreateDone(1, "ok")
    \/ \E h \in AuthHeaders, s \in RedirectKeys :
          Quiet /\ ApiUpdate(1, h, s, "https://example.org/new")
    \/ ApiUpdateDone(1, "ok")
    \/ \E h \in AuthHeaders, s \in RandKeys : Quiet /\ ApiDelete(h, s, "ok")
    \/ \E h \in AuthHeaders, io \in IoResults : Quiet /\ ApiList(h, io)
    \/ \E h \in AuthHeaders, s \in RandKeys : Quiet /\ ApiRead(h, s, "ok")
    \/ \E r \in Visitors, k \in RandKeys, ip \in ClientIps :
          Quiet /\ InOrder(r) /\ NoneInFlight /\ Start(r, k, ip, ChromeUA)
    \/ \E r \in Req : Quiet /\ FindLink(r, "ok")
    \/ \E r \in Req : Quiet /\ SaveLink(r, "ok", "ok")
    \/ \E r \in Req : Quiet /\ FindTracking(r, "ok")
    \/ \E r \in Req, v \in BOOLEAN : Quiet /\ SaveTracking(r, v, "ok")
    \/ \E r \in Req : Quiet /\ FindMinimal(r, "ok")
    \/ \E r \in Req : Quiet /\ SaveMinimal(r, "ok")

SpecList == InitConfigured /\ [][NextList]_vars

\* the admin and API routes that change sessions or Links, with plain,
\* reserved and absent keys, while a login, a logout or a tick of the clock
\* may fall between the arrival of a request and the end of its storage
\* call, and no redirect
CrudKeys == {"promo00", "Admin", "api", Undefined}
NextCrud ==
    \/ Tick
    \/ \E p \in Passwords, rd \in LoginRedirects : AdminLogin(p, rd)
    \/ \E o \in Op : AdminLogout(o)
    \/ \E o \in Op : AdminLogoutDone(o)
    \/ \E s \in CrudKeys, g \in RandKeys :
          AdminCreate(1, s, "https://example.com/sale", g)
    \/ \E io \in IoResults : AdminCreateDone(1, io)
    \/ \E s \in RandKeys : AdminDelete(1, s)
    \/ \E io \in IoResults : AdminDeleteDone(1, io)
    \/ \E h \in AuthHeaders, s \in CrudKeys, u \in {"https://example.org/new", Undefined} :
          ApiCreate(1, h, s, u, "promo00")
    \/ \E io \in IoResults : ApiCreateDone(1, io)
    \/ \E h \in AuthHeaders, s \in RandKeys, u \in {"https://example.org/new", Undefined} :
          ApiUpdate(1, h, s, u)
    \/ \E io \in IoResults : ApiUpdateDone(1, io)
    \/ \E h \in AuthHeaders, s \in RandKeys, io \in IoResults : ApiDelete(h, s, io)

SpecCrud == Init /\ [][NextCrud]_vars

\* ---------------------------------------------------------------- claims
Has(seq, x) == \E i \in DOMAIN seq : seq[i] = x
\* the requests that arrived have all completed
AllDone ==
    /\ \A r \in Req : pc[r] \in {"idle", "done"}
    /\ \E r \in Req : pc[r] = "done"
\* request r takes a step
Moved(r) == pc'[r] # pc[r]
\* the step appends exactly visit v to the Tracking document of key k and
\* leaves every other document as it was
Appends(k, v) ==
    /\ tracking'[k].exists
    /\ tracking'[k].visits = Append(tracking[k].visits, v)
    /\ \A o \in Keys \ {k} : tracking'[o] = tracking[o]
\* the increment of request r was stored
Saved(r) == Has(log[r], "saveLink:ok")
TrackingStorageErrors ==
    {"findTracking:err", "saveTracking:err", "findMinimal:err", "saveMinimal:err"}
FullFailures ==
    {"findTracking:err", "saveTracking:invalid", "saveTracking:err",
     "saveTracking:duplicate"}
TrackingFailures ==
    FullFailures \cup {"findMinimal:err", "saveMinimal:err", "saveMinimal:duplicate"}

\* C1: when all the redirect requests have completed, the visitCount of every
\* Link equals the number of requests whose increment was stored on it: no
\* increment is lost.
C1_NoLostIncrement ==
    AllDone =>
        \A k \in Keys : links[k] # NoLink =>
            links[k].visitCount =
                Cardinality({r \in Req : Saved(r) /\ seen[r].id = links[k].id})

\* C2: when all the redirect requests have completed and no tracking access
\* failed for a storage reason, the Tracking document of every key holds one
\* visit for each request that was redirected from the key.
C2_NoLostAppend ==
    (AllDone /\ \A r \in Req : \A e \in TrackingStorageErrors : ~Has(log[r], e)) =>
        \A k \in Keys :
            Len(tracking[k].visits) =
                Cardinality({r \in Req : rkey[r] = k /\ outcome[r].status = 302})

\* C3: every step of the tracking code of a request leaves the Links as they
\* are (the stored increment stays), ends the request, if it ends it, with a
\* redirect to the target read at lookup, and changes the Tracking collection
\* by nothing or by one appended visit; after a failure of the full write
\* that visit is a degraded one.
C3_TrackingFailureKeepsOutcome ==
    [][\A r \in Req :
        (pc[r] \in {"findTracking", "saveTracking", "findMinimal", "saveMinimal"}
         /\ Moved(r)) =>
            /\ Saved(r)
            /\ links' = links
            /\ pc'[r] \in {"saveTracking", "findMinimal", "saveMinimal", "done"}
            /\ pc'[r] = "done" =>
                   outcome'[r] = [status |-> 302, target |-> seen[r].targetUrl]
            /\ \/ tracking' = tracking
               \/ \E v \in {rvisit[r]} :
                     /\ Appends(rkey[r], v)
                     /\ (\E e \in FullFailures : Has(log[r], e)) =>
                            v.fields = MinimalFields
            /\ (\E e \in TrackingFailures : Has(log'[r], e) /\ ~Has(log[r], e)) =>
                   tracking' = tracking]_vars

C3_Witness ==
    \E r \in Req :
        /\ pc[r] = "done"
        /\ Has(log[r], "saveTracking:err")
        /\ Has(log[r], "saveMinimal:err")
        /\ outcome[r].status = 302
        /\ links[rkey[r]].visitCount > 0

\* C4: a lookup that finds no Link ends the request with 404 (or with 500
\* when the lookup itself failed) and leaves both collections unchanged; the
\* request makes no other storage call.
C4_MissIsNotFound ==
    [][\A r \in Req :
        (pc[r] = "findLink" /\ Moved(r) /\ links[rkey[r]] = NoLink) =>
            /\ pc'[r] = "done"
            /\ links' = links
            /\ tracking' = tracking
            /\ \/ outcome'[r].status = 404 /\ log'[r] = <<"findLink:miss", "respond">>
               \/ outcome'[r].status = 500 /\ log'[r] = <<"findLink:err", "respond">>]_vars

C4_Witness ==
    \E r \in Req :
        /\ outcome[r].status = 404
        /\ links[rkey[r]] = NoLink
        /\ ~tracking[rkey[r]].exists

\* a step of a create or update route that stores targetUrl u under key k
UpsertStep(o, k, u) ==
    /\ ops[o].shortened = k
    /\ ops[o].targetUrl = u
    /\ \/ /\ resp' = Respond("admin/create", 302, "/admin")
          /\ AdminCreateDone(o, "ok")
       \/ /\ resp' = Respond("api/create", 201, Undefined)
          /\ ApiCreateDone(o, "ok")
       \/ /\ resp' = Respond("api/update", 200, Undefined)
          /\ ApiUpdateDone(o, "ok")

\* C5: an upsert of a key that has a Link (admin create, API create or API
\* update) stores the new targetUrl and, as createdAt, the time the request
\* read, and leaves the rest of the Link, its visitCount included, as it
\* was, also while a redirect for the key is under way.
C5_UpsertKeepsVisitCount ==
    [][\A o \in Op, k \in Keys, u \in Urls :
        (links[k] # NoLink /\ UpsertStep(o, k, u)) =>
            /\ links' = [links EXCEPT ![k] = [@ EXCEPT !.targetUrl = u,
                                                       !.createdAt = ops[o].createdAt]]
            /\ ops[o].createdAt <= now
      ]_vars

\* an admin upsert has just changed the target and the date of a Link that
\* was visited before, between the lookup and the save of a redirect
C5_Witness ==
    /\ resp = Respond("admin/create", 302, "/admin")
    /\ \E r \in Req :
          /\ pc[r] = "saveLink"
          /\ links[rkey[r]].id = rlink[r].id
          /\ links[rkey[r]].visitCount > 0
          /\ links[rkey[r]].targetUrl # rlink[r].targetUrl
          /\ links[rkey[r]].createdAt > rlink[r].createdAt

\* C6: no Link is filed under a key whose lower-case form is a reserved
\* word.
C6_NoReservedLink ==
    \A k \in Keys : links[k] # NoLink => ToLowerCase(k) \notin {"admin", "api", "track"}

\* C7: whenever no request is under way, the visitCount of every Link equals
\* the number of requests that read it at lookup and were redirected.
C7_CountEqualsRedirects ==
    NoneInFlight =>
        \A k \in Keys : links[k] # NoLink =>
            links[k].visitCount =
                Cardinality({r \in Req : outcome[r].status = 302
                                         /\ seen[r].id = links[k].id})

\* C8: a request that is redirected is redirected to the targetUrl its lookup
\* read.
C8_RedirectsToLookupTarget ==
    \A r \in Req : outcome[r].status = 302 => outcome[r].target = seen[r].targetUrl

\* the Link was updated to another target before the response
C8_Witness ==
    \E r \in Req :
        /\ outcome[r].status = 302
        /\ links[rkey[r]].id = seen[r].id
        /\ links[rkey[r]].targetUrl # outcome[r].target

\* C9: a storage error of the lookup or of the increment ends the request
\* with 500 at once: nothing is stored, no tracking call follows, and a
\* request that has ended takes no further step.
C9_StorageErrorIsFatal ==
    [][\A r \in Req :
        /\ (pc[r] \in {"findLink", "saveLink"} /\ Moved(r)
            /\ (Has(log'[r], "findLink:err") \/ Has(log'[r], "saveLink:err"))) =>
               /\ pc'[r] = "done"
               /\ outcome'[r] = [status |-> 500, target |-> Undefined]
               /\ links' = links
               /\ tracking' = tracking
               /\ log'[r] \in {<<"findLink:err", "respond">>,
                               <<"findLink:ok", "saveLink:err", "respond">>}
        /\ pc[r] = "done" =>
               pc'[r] = "done" /\ log'[r] = log[r] /\ outcome'[r] = outcome[r]]_vars

C9_Witness ==
    /\ \E r \in Req : log[r] = <<"findLink:err", "respond">> /\ outcome[r].status = 500
    /\ \E r \in Req :
          log[r] = <<"findLink:ok", "saveLink:err", "respond">> /\ outcome[r].status = 500

\* C10: a request whose full write fails goes once through the fallback,
\* which appends nothing or one visit holding exactly the six degraded fields
\* with the request's visit number and address, and then ends whether or not
\* its write failed; a request whose full write was stored ends at once, so
\* it never writes a degraded visit.
C10_DegradedRetryOnce ==
    [][\A r \in Req :
        /\ (pc[r] \in {"findTracking", "saveTracking"} /\ Moved(r)) =>
              \/ /\ \E e \in FullFailures : Has(log'[r], e)
                 /\ pc'[r] = "findMinimal"
                 /\ tracking' = tracking
              \/ pc[r] = "findTracking" /\ pc'[r] = "saveTracking" /\ tracking' = tracking
              \/ /\ pc[r] = "saveTracking" /\ pc'[r] = "done"
                 /\ Appends(rkey[r], rvisit[r])
                 /\ FullFields \subseteq rvisit[r].fields
                 /\ ~Has(log'[r], "saveMinimal:ok")
        /\ (pc[r] = "findMinimal" /\ Moved(r)) =>
              /\ pc'[r] \in {"saveMinimal", "done"}
              /\ tracking' = tracking
        /\ (pc[r] = "saveMinimal" /\ Moved(r)) =>
              /\ pc'[r] = "done"
              /\ \/ tracking' = tracking
                 \/ /\ Appends(rkey[r], rvisit[r])
                    /\ rvisit[r].fields = MinimalFields
                    /\ rvisit[r].visitNumber = rlink[r].visitCount
                    /\ rvisit[r].ipAddress = IpOrUnknown(rip[r])
        /\ pc[r] = "done" => pc'[r] = "done" /\ log'[r] = log[r]]_vars

C10_Witness ==
    /\ \E r \in Req :
          /\ Has(log[r], "saveTracking:invalid")
          /\ Has(log[r], "saveMinimal:ok")
          /\ \E i \in DOMAIN tracking[rkey[r]].visits :
                tracking[rkey[r]].visits[i].fields = MinimalFields
    /\ \E r \in Req :
          /\ pc[r] = "done"
          /\ Has(log[r], "saveTracking:err")
          /\ Has(log[r], "saveMinimal:err")

TrackingSteps == {"findTracking", "saveTracking", "findMinimal", "saveMinimal"}

\* C11: the save of a request's increment leaves in the Link store the count
\* the request holds in memory, the visitData built next carries that count
\* as visitNumber, the request keeps the count until it ends, and every visit
\* it appends, full or degraded, carries it, whatever other requests do in
\* between.
C11_VisitNumberIsOwnCount ==
    [][\A r \in Req :
        /\ (pc[r] = "saveLink" /\ Has(log'[r], "saveLink:ok")) =>
              /\ links'[rkey[r]].visitCount = rlink[r].visitCount
              /\ pc'[r] = "findTracking" =>
                     /\ rvisit'[r].visitNumber = links'[rkey[r]].visitCount
                     /\ rlink'[r].visitCount = rlink[r].visitCount
        /\ (pc[r] \in TrackingSteps /\ Moved(r)) =>
              /\ pc'[r] # "done" => rlink'[r].visitCount = rlink[r].visitCount
              /\ tracking' # tracking =>
                     /\ Appends(rkey[r], rvisit[r])
                     /\ rvisit[r].visitNumber = rlink[r].visitCount]_vars

\* two requests that overlapped have both appended their visit
C11_Witness ==
    \E k \in Keys :
        /\ Len(tracking[k].visits) = 2
        /\ tracking[k].visits[1].visitNumber = 1
        /\ tracking[k].visits[2].visitNumber = 1
        /\ links[k].visitCount = 1

\* C12: a request whose enrichment threw has still been answered with a
\* redirect, never with a server error.
C12_EnrichmentFailureContained ==
    \A r \in Req :
        (pc[r] = "done" /\ Has(log[r], "enrich:throw")) => outcome[r].status = 302

\* C13: in every step the visits of every Tracking document keep the old
\* sequence as a prefix.
C13_VisitsAppendOnly ==
    [][\A k \in Keys :
        /\ Len(tracking[k].visits) <= Len(tracking'[k].visits)
        /\ SubSeq(tracking'[k].visits, 1, Len(tracking[k].visits)) = tracking[k].visits
      ]_vars

\* a degraded visit and then a full one were appended, and the Link was
\* deleted afterwards
C13_Witness ==
    \E k \in Keys :
        /\ Len(tracking[k].visits) = 2
        /\ tracking[k].visits[1].fields = MinimalFields
        /\ FullFields \subseteq tracking[k].visits[2].fields
        /\ links[k] = NoLink
        /\ resp = Respond("api/delete", 200, Undefined)

\* a delete route removes the Link of key k with success
DeleteStep(k) ==
    \/ /\ resp' = Respond("admin/delete", 302, "/admin")
       /\ \E o \in Op : ops[o].shortened = k /\ AdminDeleteDone(o, "ok")
    \/ /\ resp' = Respond("api/delete", 200, Undefined)
       /\ ApiDelete(API_KEY, k, "ok")

\* C14: a delete of key k, by the admin route or by the API route, leaves
\* every other Link and the whole Tracking collection as they were, and the
\* Link of k is gone.
C14_DeleteRemovesOnlyLink ==
    [][\A k \in Keys :
        DeleteStep(k) =>
            /\ links'[k] = NoLink
            /\ \A o \in Keys \ {k} : links'[o] = links[o]
            /\ tracking' = tracking]_vars

\* the admin has just deleted a Link that was visited: its Tracking document
\* is still there, and so is another Link
C14_Witness ==
    /\ resp = Respond("admin/delete", 302, "/admin")
    /\ \E k \in Keys :
          /\ links[k] = NoLink
          /\ Len(tracking[k].visits) > 0
          /\ \E o \in Keys \ {k} : links[o] # NoLink

\* a create route stores targetUrl u under the key g that it generated
GeneratedCreateStep(g, u) ==
    \E o \in Op :
        /\ Falsy(ops[o].body)
        /\ ops[o].shortened = g
        /\ ops[o].targetUrl = u
        /\ \/ /\ resp' = Respond("admin/create", 302, "/admin")
              /\ AdminCreateDone(o, "ok")
           \/ /\ resp' = Respond("api/create", 201, Undefined)
              /\ ApiCreateDone(o, "ok")

\* C15: a create that generated a key which a Link already owns leaves the
\* targetUrl and the createdAt of that Link as they were.
C15_GeneratedKeyNeverOverwrites ==
    [][\A g \in RandKeys, u \in Urls :
        (links[g] # NoLink /\ GeneratedCreateStep(g, u)) =>
            /\ links'[g].targetUrl = links[g].targetUrl
            /\ links'[g].createdAt = links[g].createdAt]_vars

\* an authorized caller updates or deletes key k, and the storage works
UpdateOrDeleteStep(k) ==
    \/ /\ resp'.route = "api/update"
       /\ \E o \in Op : ops[o].shortened = k /\ ApiUpdateDone(o, "ok")
    \/ /\ resp'.route = "api/delete"
       /\ ApiDelete(API_KEY, k, "ok")
    \/ /\ resp'.route = "admin/delete"
       /\ \E o \in Op : ops[o].shortened = k /\ AdminDeleteDone(o, "ok")

\* C16: an update or a delete of a key that has no Link answers 404 and
\* leaves the Link collection as it was, on the API update, the API delete
\* and the admin delete route.
C16_AbsentKeyIsNotFound ==
    [][\A k \in Keys :
        (links[k] = NoLink /\ UpdateOrDeleteStep(k)) =>
            /\ resp'.status = 404
            /\ links' = links]_vars

\* C17: the visitData of a request whose User-Agent header is absent, empty
\* or unparseable has null for browser, os and both device fields, and
\* isBot false.
C17_BlankAgentGivesNulls ==
    \A r \in Req :
        (pc[r] \in {"findTracking", "saveTracking"} /\ rua[r] \in BlankAgents) =>
            /\ rvisit[r].userAgent.browser = Null
            /\ rvisit[r].userAgent.os = Null
            /\ rvisit[r].userAgent.deviceType = Null
            /\ rvisit[r].userAgent.deviceModel = Null
            /\ rvisit[r].isBot = FALSE

\* C18: when three overlapping requests of three clients for the same Link
\* have completed, each was redirected to the Link's targetUrl, the Link's
\* visitCount is 3, and its Tracking document holds 3 visits with three
\* different addresses.
C18_ThreeConcurrentVisits ==
    \A k \in RedirectKeys :
        (\A r \in 1..3 : pc[r] = "done" /\ rkey[r] = k) =>
            /\ \A r \in 1..3 :
                  outcome[r] = [status |-> 302, target |-> links[k].targetUrl]
            /\ links[k].visitCount = 3
            /\ Len(tracking[k].visits) = 3
            /\ Cardinality({tracking[k].visits[i].ipAddress :
                               i \in DOMAIN tracking[k].visits}) = 3

\* the place of a log entry in the order lookup, increment, enrich, append,
\* respond
Stage(e) ==
    CASE e \in {"findLink:ok", "findLink:miss", "findLink:err"} -> 1
      [] e \in {"saveLink:ok", "saveLink:err", "saveLink:gone"} -> 2
      [] e \in {"enrich:ok", "enrich:throw"} -> 3
      [] e = "respond" -> 5
      [] OTHER -> 4

InOrderLog(r) ==
    \A i, j \in DOMAIN log[r] : i < j => Stage(log[r][i]) <= Stage(log[r][j])

Responses(r) == Cardinality({i \in DOMAIN log[r] : log[r][i] = "respond"})

\* C19: the steps of every request are in the order lookup, increment,
\* enrich, append, respond; a request that has not ended has sent no
\* response and its next step is enabled whatever the others do; a request
\* that has ended has sent one response, with 404, 302 or 500, and takes no
\* further step; a step of a request changes the Tracking collection only
\* after the request's increment was stored; and under fair scheduling every
\* request that arrived ends.
C19_OneOutcomeInOrder ==
    /\ [](\A r \in Req :
            /\ InOrderLog(r)
            /\ pc[r] = "done" =>
                   Responses(r) = 1 /\ outcome[r].status \in {404, 302, 500}
            /\ pc[r] # "done" => Responses(r) = 0 /\ outcome[r] = NoOutcome
            /\ pc[r] \notin {"idle", "done"} => ENABLED Handle(r))
    /\ [][\A r \in Req :
            /\ pc[r] = "done" =>
                   pc'[r] = "done" /\ outcome'[r] = outcome[r] /\ log'[r] = log[r]
            /\ (Moved(r) /\ tracking' # tracking) =>
                   Has(log[r], "saveLink:ok") /\ Has(log[r], "enrich:ok")]_vars
    /\ \A r \in Req : (pc[r] # "idle") ~> (pc[r] = "done")

\* one request went through all its steps and was redirected, another one
\* found no Link
C19_Witness ==
    \E r, q \in Req :
        /\ log[r] = <<"findLink:ok", "saveLink:ok", "enrich:ok", "findTracking:ok",
                      "saveTracking:ok", "respond">>
        /\ outcome[r].status = 302
        /\ log[q] = <<"findLink:miss", "respond">>
        /\ outcome[q].status = 404

\* C20: a step of a request that appends a visit leaves the targetUrl of the
\* Tracking document equal to the targetUrl the request read at lookup; when
\* there was no document, the new one holds the request's visit alone.
C20_AppendRefreshesTarget ==
    [][\A r \in Req :
        (Moved(r) /\ tracking' # tracking) =>
            /\ tracking'[rkey[r]].targetUrl = seen[r].targetUrl
            /\ ~tracking[rkey[r]].exists =>
                   tracking'[rkey[r]].visits = <<rvisit[r]>>]_vars

\* C21: every Link is filed under its own key and no two Links share an
\* _id; a Link document is inserted only under a key that has none; and a
\* request that holds a new Tracking document stores it only when the
\* collection holds no document for the key, so neither collection ever holds
\* two documents for a key.
C21_OneDocumentPerKey ==
    /\ [](\A k \in Keys : links[k] # NoLink =>
              /\ links[k].shortened = k
              /\ \A o \in Keys \ {k} : links[o] # NoLink => links[o].id # links[k].id)
    /\ [][\A k \in Keys :
            (links'[k] # NoLink /\ links'[k].id # links[k].id) => links[k] = NoLink]_vars
    /\ [][\A r \in Req :
            (Moved(r) /\ tracking' # tracking /\ rtrk[r].isNew) =>
                ~tracking[rkey[r]].exists]_vars

\* two first visits overlapped: the insert of the second was refused; and
\* two creates of the key overlapped: the admin create has stored the Link
\* and the API create, which arrived meanwhile, is still suspended
C21_Witness ==
    \E r \in Req :
        /\ pc[r] = "done"
        /\ Has(log[r], "saveTracking:duplicate") \/ Has(log[r], "saveMinimal:duplicate")
        /\ tracking[rkey[r]].exists
        /\ links[rkey[r]].createdAt = 0
        /\ links[rkey[r]].targetUrl = "https://example.org/new"
        /\ resp.route = "admin/create"
        /\ ops[1] = NoOp
        /\ \E o \in Op \ {1} :
              ops[o].route = "api/create" /\ ops[o].shortened = rkey[r]

\* GET /api/links answers 200
ListStep ==
    /\ resp'.route = "api/list"
    /\ resp'.status = 200
    /\ \E h \in AuthHeaders, io \in IoResults : ApiList(h, io)

\* C22: the data of a GET /api/links response holds the fields of every
\* stored Link exactly once, by descending visitCount, and its count is the
\* number of stored Links.
C22_ListSortedAndComplete ==
    [][ListStep =>
          LET d == resp'.data IN
          /\ resp'.count = Cardinality(Stored(links))
          /\ Len(d) = Cardinality(Stored(links))
          /\ {d[i] : i \in DOMAIN d} = {LinkData(x) : x \in Stored(links)}
          /\ \A i, j \in DOMAIN d : i # j => d[i].shortened # d[j].shortened
          /\ \A i \in 1..(Len(d) - 1) : d[i].visitCount >= d[i + 1].visitCount]_vars

\* the Link that was created last is listed first, with more visits
C22_Witness ==
    /\ resp.route = "api/list"
    /\ resp.count = 2
    /\ resp.data[1].visitCount > resp.data[2].visitCount
    /\ links[resp.data[1].shortened].id > links[resp.data[2].shortened].id

\* C23: no step takes the visitCount of a Link that stays in the store to a
\* smaller value.
C23_VisitCountNeverDecreases ==
    [][\A k \in Keys :
        (links[k] # NoLink /\ links'[k] # NoLink /\ links'[k].id = links[k].id) =>
            links'[k].visitCount >= links[k].visitCount]_vars

\* C24: the Tracking document of a Link that was never deleted holds at most
\* as many visits as the Link's visitCount.
C24_VisitsWithinCount ==
    \A k \in Keys :
        links[k] # NoLink => Len(tracking[k].visits) <= links[k].visitCount

\* C25: no two visits of the Tracking document of a Link that was never
\* deleted carry the same visitNumber.
C25_VisitNumbersDistinct ==
    \A k \in Keys :
        links[k] # NoLink =>
            \A i, j \in DOMAIN tracking[k].visits :
                i # j => tracking[k].visits[i].visitNumber # tracking[k].visits[j].visitNumber

\* C26: the step of a request that completes link.save() leaves every other
\* Link as it was, leaves a key without a Link without one, and changes of
\* the Link it looked up nothing but the visitCount, which becomes the count
\* read at lookup plus one; when the Link was deleted or replaced since the
\* lookup the step changes nothing.
C26_IncrementChangesOnlyCount ==
    [][\A r \in Req :
        (pc[r] = "saveLink" /\ Moved(r)) =>
            /\ \A o \in Keys \ {rkey[r]} : links'[o] = links[o]
            /\ links[rkey[r]] = NoLink => links'[rkey[r]] = NoLink
            /\ links[rkey[r]] # NoLink =>
                   links'[rkey[r]] =
                       [links[rkey[r]] EXCEPT !.visitCount = links'[rkey[r]].visitCount]
            /\ links' # links =>
                   /\ links[rkey[r]].id = seen[r].id
                   /\ links'[rkey[r]].visitCount = seen[r].visitCount + 1]_vars

\* one request stored its increment on a Link whose target is no longer the
\* one it read, and another found its Link deleted when it saved
C26_Witness ==
    /\ \E r \in Req :
          /\ pc[r] = "findTracking"
          /\ links[rkey[r]].id = seen[r].id
          /\ links[rkey[r]].targetUrl # seen[r].targetUrl
          /\ links[rkey[r]].visitCount = seen[r].visitCount + 1
    /\ \E q \in Req :
          /\ log[q] = <<"findLink:ok", "saveLink:gone", "respond">>
          /\ seen[q].visitCount = 0

\* the tracking writes of request r that were stored
StoredWrites(r) ==
    {i \in DOMAIN log[r] : log[r][i] \in {"saveTracking:ok", "saveMinimal:ok"}}

\* C27: a request has at most one tracking write stored; every change of the
\* Tracking collection is the step of one request, which appends one visit to
\* the document of the request's key, touches no other document, has stored
\* no visit before and ends the request.
C27_AtMostOneEntry ==
    /\ [](\A r \in Req : Cardinality(StoredWrites(r)) <= 1)
    /\ [][tracking' # tracking => \E r \in Req : Moved(r)]_vars
    /\ [][\A r \in Req :
            (Moved(r) /\ tracking' # tracking) =>
                /\ Appends(rkey[r], rvisit[r])
                /\ StoredWrites(r) = {}
                /\ pc'[r] = "done"]_vars

\* a request whose full write was refused stored its degraded visit, and the
\* document of its key holds one visit for each of the two requests
C27_Witness ==
    \E r \in Req :
        /\ pc[r] = "done"
        /\ Has(log[r], "saveTracking:invalid")
        /\ Has(log[r], "saveMinimal:ok")
        /\ Len(tracking[rkey[r]].visits) = 2
        /\ \A q \in Visitors : Cardinality(StoredWrites(q)) = 1

\* a request under /api/links that carries Authorization header h
ApiStepWith(h) ==
    \/ /\ resp'.route = "api/create" \/ ops' # ops
       /\ \E o \in Op, s \in RandKeys \cup {Undefined}, u \in Urls, g \in RandKeys :
             ApiCreate(o, h, s, u, g)
    \/ /\ resp'.route = "api/update" \/ ops' # ops
       /\ \E o \in Op, s \in RandKeys, u \in Urls : ApiUpdate(o, h, s, u)
    \/ /\ resp'.route = "api/list"
       /\ \E io \in IoResults : ApiList(h, io)
    \/ /\ resp'.route = "api/read"
       /\ \E s \in RandKeys, io \in IoResults : ApiRead(h, s, io)
    \/ /\ resp'.route = "api/delete"
       /\ \E s \in RandKeys, io \in IoResults : ApiDelete(h, s, io)

\* C28: an API request whose Authorization header is absent or is not the
\* API key is answered 401 at once with no data, makes no storage call and
\* leaves the Link collection and the Tracking collection as they were.
C28_UnauthorizedApiChangesNothing ==
    [][\A h \in AuthHeaders \ {API_KEY} :
        ApiStepWith(h) =>
            /\ resp'.status = 401
            /\ resp'.data = <<>>
            /\ ops' = ops
            /\ links' = links
            /\ nextId' = nextId
            /\ tracking' = tracking]_vars

\* a delete of a Link that was visited was refused
C28_Witness ==
    /\ resp = Respond("api/delete", 401, Undefined)
    /\ \E k \in Keys : links[k] # NoLink /\ Len(tracking[k].visits) > 0

\* C29: the admin flag of the session goes from unset to set only in a login
\* whose password field is present and equals the configured admin
\* password; and a logout leaves the flag unset.
C29_AdminOnlyByPassword ==
    /\ [][(~sessionAdmin /\ sessionAdmin') =>
             \E p \in Passwords \ {Undefined}, rd \in LoginRedirects :
                 p = adminPassword /\ AdminLogin(p, rd)]_vars
    /\ [][(\E o \in Op : AdminLogout(o)) => ~sessionAdmin']_vars

\* an admin create or an admin delete request
AdminStep ==
    \/ /\ resp'.route = "admin/create" \/ ops' # ops
       /\ \E o \in Op, s \in InputKeys, u \in Urls, g \in RandKeys :
             AdminCreate(o, s, u, g)
    \/ /\ resp'.route = "admin/delete" \/ ops' # ops
       /\ \E o \in Op, s \in Keys : AdminDelete(o, s)

\* C30: an admin create or admin delete request that arrives in a session
\* whose admin flag is unset is redirected to the login page at once, makes
\* no storage call and leaves the Link collection and the Tracking
\* collection as they were; a logout request unsets the flag, so the session
\* is refused again.
C30_NonAdminIsRefused ==
    /\ [][(~sessionAdmin /\ AdminStep) =>
             /\ resp'.status = 302
             /\ resp'.location \in {LoginPage("/admin/create"), LoginPage("/admin/delete")}
             /\ ops' = ops
             /\ links' = links
             /\ nextId' = nextId
             /\ tracking' = tracking
             /\ ~sessionAdmin']_vars
    /\ [][\A o \in Op : (ops[o] = NoOp /\ ops'[o].route = "admin/logout") =>
             ~sessionAdmin']_vars

\* a session that created a Link as admin has logged out and its delete is
\* refused
C30_Witness ==
    /\ ~sessionAdmin
    /\ resp = Respond("admin/delete", 302, LoginPage("/admin/delete"))
    /\ links["api"] # NoLink

\* ------------------------------------- the redirect handler without tracking
\* The second app.get('/:shortened') of server.js awaits Link.findOne and
\* link.save() and then responds.  Its state is read off the state of the
\* handler with tracking: where that one is in its tracking code, this one
\* has already sent the redirect.
PlainPc ==
    [r \in Req |-> IF pc[r] \in TrackingSteps THEN "done" ELSE pc[r]]

PlainLink ==
    [r \in Req |-> IF pc[r] = "saveLink" THEN rlink[r] ELSE NoLink]

PlainOutcome ==
    [r \in Req |-> IF pc[r] \in TrackingSteps
                    THEN [status |-> 302, target |-> rlink[r].targetUrl]
                    ELSE outcome[r]]

\* the handler sends its response
PlainFinish(r, status, target) ==
    /\ PlainPc' = [PlainPc EXCEPT ![r] = "done"]
    /\ PlainOutcome' = [PlainOutcome EXCEPT ![r] = [status |-> status, target |-> target]]
    /\ PlainLink' = [PlainLink EXCEPT ![r] = NoLink]

\* await Link.findOne({shortened}); if (!link) 404; link.visitCount += 1
PlainFindLink(r, io) ==
    /\ PlainPc[r] = "findLink"
    /\ links' = links
    /\ IF io = "err"
       THEN PlainFinish(r, 500, Undefined)
       ELSE IF Missing(links[rkey[r]])
       THEN PlainFinish(r, 404, Undefined)
       ELSE /\ PlainPc' = [PlainPc EXCEPT ![r] = "saveLink"]
            /\ PlainLink' = [PlainLink EXCEPT ![r] = IncrementVisit(links[rkey[r]])]
            /\ PlainOutcome' = PlainOutcome

\* await link.save(); res.redirect(link.targetUrl)
PlainSaveLink(r, io) ==
    /\ PlainPc[r] = "saveLink"
    /\ IF io = "err" \/ ~LinkSaveMatches(links, PlainLink[r])
       THEN links' = links /\ PlainFinish(r, 500, Undefined)
       ELSE /\ links' = LinkSave(links, PlainLink[r])
            /\ PlainFinish(r, 302, PlainLink[r].targetUrl)

\* a step of the handler without tracking for request r
PlainHandle(r) ==
    \/ \E io \in IoResults : PlainFindLink(r, io)
    \/ \E io \in IoResults : PlainSaveLink(r, io)

\* C31: every step of a request in the handler with tracking is, on the
\* Link collection and on the response of the request, a step of the
\* handler without tracking or no step at all: both give the same response
\* and leave the same Links.
C31_RefinesPlainRedirect ==
    [][\A r \in Req :
        (pc[r] \notin {"idle", "done"} /\ Moved(r)) =>
            \/ PlainHandle(r)
            \/ /\ links' = links
               /\ PlainPc' = PlainPc
               /\ PlainLink' = PlainLink
               /\ PlainOutcome' = PlainOutcome]_vars

====
